---- MODULE Spec2Model ----
(***************************************************************************)
(* The OAuth 2.0 token-lifecycle manager of MFL-Prop-Bets                  *)
(* (mfl_prop_bets/clients/oauth_client.py, class YahooOAuth): the         *)
(* in-memory OAuthConfig record, the JSON file behind it, the wall clock,  *)
(* and the public operations that read and change them.  The token        *)
(* endpoint and the file system are the environment: every call draws the  *)
(* endpoint's answer and the outcome of the file write from the sets       *)
(* below.                                                                  *)
(***************************************************************************)
EXTENDS Integers, Sequences, FiniteSets, TLC

VARIABLES
    config,       \* self.config: the OAuthConfig held in memory
    config_file,  \* the content of self.config_file on disk
    now,          \* time.time()
    nticks,       \* how many times the clock has been advanced
    call,         \* the last call of a public method: what it was given,
                  \* what it sent, what it wrote and how it returned
    http,         \* the httpx clients: the state of self.session and the
                  \* number of clients that are open in the process
    callers       \* the threads inside ensure_valid_token: where each is
                  \* and what it has read and sent

vars == <<config, config_file, now, nticks, call, http, callers>>

----------------------------------------------------------------------------
(* Values *)

\* The token strings in play: T0 and R0 are what the credential file may
\* hold at construction, and the token endpoint may issue any of them.
AccessTokens == {"T0", "T1"}
RefreshTokens == {"R0", "R1"}

\* Python's None (JSON null) for the str | None fields.
None == "(null)"

\* None for token_time: float | None.  Epoch seconds are never negative.
NoTime == -1

\* is_token_valid: token_age < 3300  (55 minutes)
ValidityWindow == 3300

\* The clock reading at construction.
StartTime == 10000

\* How many clock advances a behaviour may hold.
MaxTicks == 2

\* The steps the clock advances by: one second short of the window, and the
\* window itself.
Deltas == {ValidityWindow - 1, ValidityWindow}

token_url == "https://api.login.yahoo.com/oauth2/get_token"

\* The keys of OAuthConfig.
Keys == {"access_token", "consumer_key", "consumer_secret", "refresh_token",
         "token_time", "token_type", "guid"}

\* What the credential file may hold when the manager is constructed.
StoredAccess == {"T0", None}
StoredRefresh == {"R0", None}
StoredTimes == {NoTime, StartTime - 4000, StartTime}

\* What the token endpoint may put in a 2xx or non-2xx JSON object.
AccessValues == AccessTokens \cup {None}
RefreshValues == {"R1"}

\* Python truthiness of a str | None value: `not x` is true of None and "".
Truthy(v) == v # None /\ v # ""

\* Python truthiness of a float | None value: `not x` is true of None and 0.0.
TruthyTime(t) == t # NoTime /\ t # 0

----------------------------------------------------------------------------
(* The credential file *)

\* OAuthConfig with token_type declared like the other optional fields,
\* `str | None = None`.
OAuthConfig_token_type_none(data) ==
    [k \in {"access_token", "consumer_key", "consumer_secret",
            "refresh_token", "token_time", "token_type", "guid"} |->
        IF k \in DOMAIN data THEN data[k]
        ELSE IF k = "token_time" THEN -1 ELSE "(null)"]

\* OAuthConfig(**data): absent optional keys take the field defaults, keys
\* that are no field of the model are dropped.
OAuthConfig(data) ==
    [access_token    |-> IF "access_token" \in DOMAIN data
                         THEN data["access_token"] ELSE None,
     consumer_key    |-> data["consumer_key"],
     consumer_secret |-> data["consumer_secret"],
     refresh_token   |-> IF "refresh_token" \in DOMAIN data
                         THEN data["refresh_token"] ELSE None,
     token_time      |-> IF "token_time" \in DOMAIN data
                         THEN data["token_time"] ELSE NoTime,
     token_type      |-> IF "token_type" \in DOMAIN data
                         THEN data["token_type"] ELSE "bearer",
     guid            |-> IF "guid" \in DOMAIN data
                         THEN data["guid"] ELSE None]

\* model_dump that writes no secret to the file.
model_dump_redacted(cfg) ==
    [k \in Keys |-> IF k = "consumer_secret" THEN "(null)" ELSE cfg[k]]

\* model_dump with token_time left out of the dump.
model_dump_without_time(cfg) == [k \in Keys \ {"token_time"} |-> cfg[k]]

\* self.config.model_dump(): every field of the model, by name.
model_dump(cfg) == [k \in Keys |-> cfg[k]]

\* A file with no content that json.load accepts.
NoData == [k \in {} |-> None]

\* A credential file with every key written out.
StoredData(at, rt, tt) ==
    [access_token |-> at, consumer_key |-> "ck", consumer_secret |-> "cs",
     refresh_token |-> rt, token_time |-> tt, token_type |-> "bearer",
     guid |-> None]

\* The credential file before the first authorization: the two required
\* keys and nothing else.
FreshData == [consumer_key |-> "ck", consumer_secret |-> "cs"]

StoredFiles ==
    {[state |-> "ok", data |-> StoredData(at, rt, tt)] :
        at \in StoredAccess, rt \in StoredRefresh, tt \in StoredTimes}
    \cup {[state |-> "ok", data |-> FreshData]}

\* How the write of the file may end: written, or failing (OSError) once
\* open(..., "w") has truncated the file.
SaveOutcomes == {"written", "write_fails"}

\* _save_config: the file after the call and whether it raised.
_save_config(cfg, file, io) ==
    IF io = "written"
    THEN [file |-> [state |-> "ok", data |-> model_dump(cfg)],
          raised |-> FALSE]
    ELSE [file |-> [state |-> "truncated", data |-> NoData],
          raised |-> TRUE]

----------------------------------------------------------------------------
(* The token endpoint *)

\* A JSON object with the given members; "absent" leaves the key out.
BodyDict(at, rt) ==
    LET all == [access_token |-> at, refresh_token |-> rt]
        keep == (IF at # "absent" THEN {"access_token"} ELSE {})
                \cup (IF rt # "absent" THEN {"refresh_token"} ELSE {})
    IN  [k \in keep |-> all[k]]

\* A response body: text that is no JSON, a JSON array, or a JSON object.
Bodies ==
    {[shape |-> "text", d |-> NoData], [shape |-> "list", d |-> NoData]}
    \cup {[shape |-> "dict", d |-> BodyDict(at, rt)] :
            at \in AccessValues \cup {"absent"},
            rt \in RefreshValues \cup {"absent"}}

\* What self.session.post may come back with: a transport error
\* (httpx.RequestError) or a response with a status and a body.
TransportError == [net |-> "error", status |-> 0,
                   body |-> [shape |-> "text", d |-> NoData]]

\* The bodies that come with a status that is no 2xx: an error page, or a
\* JSON object (which may even hold a token).
ErrorBodies ==
    {[shape |-> "text", d |-> NoData],
     [shape |-> "dict", d |-> BodyDict("T1", "absent")],
     [shape |-> "dict", d |-> [error_description |-> "invalid grant"]]}

Responses ==
    {TransportError}
    \cup {[net |-> "ok", status |-> 200, body |-> b] : b \in Bodies}
    \cup {[net |-> "ok", status |-> 401, body |-> b] : b \in ErrorBodies}

\* No request was sent, so there is no response.
NoResponse == [net |-> "none", status |-> 0,
               body |-> [shape |-> "text", d |-> NoData]]

\* The response is used without raise_for_status().
is_success_unchecked(status) == TRUE

\* response.raise_for_status() returns only for a 2xx status.
is_success(status) == 200 <= status /\ status < 300

\* response.json() followed by token_data["access_token"]: both return only
\* for a JSON object with that key (JSONDecodeError, TypeError and KeyError
\* otherwise).
has_access_token(body) ==
    body.shape = "dict" /\ "access_token" \in DOMAIN body.d

----------------------------------------------------------------------------
(* Validity *)

\* is_token_valid with token_age <= 3300.
is_token_valid_inclusive(cfg, t) ==
    IF ~Truthy(cfg.access_token) THEN FALSE
    ELSE IF ~TruthyTime(cfg.token_time) THEN FALSE
    ELSE t - cfg.token_time <= ValidityWindow

\* is_token_valid that looks at the access token alone.
is_token_valid_ignoring_time(cfg, t) == Truthy(cfg.access_token)

\* is_token_valid at clock reading t.
is_token_valid(cfg, t) ==
    IF ~Truthy(cfg.access_token) THEN FALSE
    ELSE IF ~TruthyTime(cfg.token_time) THEN FALSE
    ELSE t - cfg.token_time < ValidityWindow

----------------------------------------------------------------------------
(* One call: the record, the file, the requests sent to the token endpoint,
   the calls of _save_config, the response received, the requests sent to
   the API, the error raised, the provider's error_description that its
   message quotes, and the URL returned. *)

NoUrl == [base |-> None, query |-> <<>>]

Begin(cfg, file) ==
    [config |-> cfg, file |-> file, reqs |-> <<>>, saves |-> 0,
     resp |-> NoResponse, api |-> <<>>, apiresp |-> NoResponse,
     err |-> "none", detail |-> None, ret |-> NoUrl, valid |-> FALSE,
     http |-> http]

Raise(w, msg) == [w EXCEPT !.err = msg]

\* except httpx.HTTPStatusError in refresh_access_token: the message gets
\* error_data['error_description'] when the body is a JSON object with it.
RaiseHTTPRefresh(w, resp) ==
    [w EXCEPT !.err = "HTTP error refreshing token",
              !.detail = IF resp.body.shape = "dict"
                            /\ "error_description" \in DOMAIN resp.body.d
                         THEN resp.body.d["error_description"] ELSE None]

\* self.session.post(self.token_url, data=data, headers=headers)
Post(w, data, resp) ==
    [w EXCEPT !.reqs = Append(@, data), !.resp = resp]

\* self._save_config() inside the try block of refresh and exchange: what it
\* raises is caught by `except Exception` and raised again under msg.
SaveInTry(w, io, msg) ==
    LET s == _save_config(w.config, w.file, io)
    IN  [w EXCEPT !.file = s.file, !.saves = @ + 1,
                  !.err = IF s.raised THEN msg ELSE "none"]

\* refresh_access_token testing `not self.config` alone.
has_refresh_token_unchecked(cfg) == TRUE

\* refresh_access_token, first statement: is there a refresh token to send?
has_refresh_token(cfg) == Truthy(cfg.refresh_token)

\* refresh_data with the refresh token the file had at construction.
refresh_data_first_token(cfg) ==
    [url |-> token_url, grant_type |-> "refresh_token",
     client_id |-> cfg.consumer_key, client_secret |-> cfg.consumer_secret,
     refresh_token |-> "R0"]

\* refresh_access_token, the form it posts.
refresh_data(cfg) ==
    [url |-> token_url, grant_type |-> "refresh_token",
     client_id |-> cfg.consumer_key, client_secret |-> cfg.consumer_secret,
     refresh_token |-> cfg.refresh_token]

\* refresh_update without the assignment of token_time.
refresh_update_stale_time(cfg, token_data, t) ==
    LET c == [cfg EXCEPT !.access_token = token_data["access_token"]]
    IN  IF "refresh_token" \in DOMAIN token_data
        THEN [c EXCEPT !.refresh_token = token_data["refresh_token"]]
        ELSE c

\* refresh_update taking the refresh token as exchange_code_for_token does:
\* token_data.get("refresh_token").
refresh_update_get(cfg, token_data, t) ==
    [cfg EXCEPT !.access_token = token_data["access_token"],
                !.token_time = t,
                !.refresh_token = IF "refresh_token" \in DOMAIN token_data
                                  THEN token_data["refresh_token"] ELSE None]

\* refresh_access_token, "Update configuration with new token".
refresh_update(cfg, token_data, t) ==
    LET c == [cfg EXCEPT !.access_token = token_data["access_token"],
                         !.token_time = t]
    IN  IF "refresh_token" \in DOMAIN token_data
        THEN [c EXCEPT !.refresh_token = token_data["refresh_token"]]
        ELSE c

\* refresh_access_token without its first test: it posts whatever
\* refresh_token the record has.
refresh_access_token_unguarded(w, t, resp, io) ==
    LET w1 == Post(w, refresh_data(w.config), resp)
    IN  IF resp.net # "ok" \/ ~is_success(resp.status)
           \/ ~has_access_token(resp.body)
        THEN Raise(w1, "Unexpected error refreshing token")
        ELSE SaveInTry(
               [w1 EXCEPT !.config = refresh_update(@, resp.body.d, t)],
               io, "Unexpected error refreshing token")

refresh_access_token(w, t, resp, io) ==
    IF ~has_refresh_token(w.config)
    THEN Raise(w, "No refresh token available")
    ELSE LET w1 == Post(w, refresh_data(w.config), resp)
         IN  IF resp.net = "error"
             THEN Raise(w1, "Unexpected error refreshing token")
             ELSE IF ~is_success(resp.status)
             THEN RaiseHTTPRefresh(w1, resp)
             ELSE IF ~has_access_token(resp.body)
             THEN Raise(w1, "Unexpected error refreshing token")
             ELSE SaveInTry(
                    [w1 EXCEPT !.config = refresh_update(@, resp.body.d, t)],
                    io, "Unexpected error refreshing token")

\* ensure_valid_token with the test inverted: `if self.is_token_valid()`.
ensure_valid_token_inverted(w, t, resp, io) ==
    IF is_token_valid(w.config, t)
    THEN refresh_access_token(w, t, resp, io)
    ELSE w

ensure_valid_token(w, t, resp, io) ==
    IF ~is_token_valid(w.config, t)
    THEN refresh_access_token(w, t, resp, io)
    ELSE w

\* exchange_code_for_token, the form it posts.
exchange_data(cfg, code, redirect_uri) ==
    [url |-> token_url, grant_type |-> "authorization_code",
     client_id |-> cfg.consumer_key, client_secret |-> cfg.consumer_secret,
     redirect_uri |-> redirect_uri, code |-> code]

\* exchange_code_for_token, "Update configuration with tokens":
\* token_data.get("refresh_token") is None when the key is missing.
exchange_update(cfg, token_data, t) ==
    [cfg EXCEPT !.access_token = token_data["access_token"],
                !.refresh_token = IF "refresh_token" \in DOMAIN token_data
                                  THEN token_data["refresh_token"] ELSE None,
                !.token_time = t]

\* exchange_code_for_token without response.raise_for_status().
exchange_code_for_token_no_status(w, t, code, redirect_uri, resp, io) ==
    LET w1 == Post(w, exchange_data(w.config, code, redirect_uri), resp)
    IN  IF resp.net = "error" \/ ~has_access_token(resp.body)
        THEN Raise(w1, "Failed to exchange code for token")
        ELSE SaveInTry(
               [w1 EXCEPT !.config = exchange_update(@, resp.body.d, t)],
               io, "Failed to exchange code for token")

exchange_code_for_token(w, t, code, redirect_uri, resp, io) ==
    LET w1 == Post(w, exchange_data(w.config, code, redirect_uri), resp)
    IN  IF resp.net = "error" \/ ~is_success(resp.status)
           \/ ~has_access_token(resp.body)
        THEN Raise(w1, "Failed to exchange code for token")
        ELSE SaveInTry(
               [w1 EXCEPT !.config = exchange_update(@, resp.body.d, t)],
               io, "Failed to exchange code for token")

----------------------------------------------------------------------------
(* Authenticated requests: get_session, make_request, get, post *)

\* self.config = None: no record is loaded.  The manager holds this only
\* inside __init__, before _load_config has returned.
NoConfig ==
    [access_token |-> None, consumer_key |-> None, consumer_secret |-> None,
     refresh_token |-> None, token_time |-> NoTime, token_type |-> None,
     guid |-> None]

api_url == "https://fantasysports.yahooapis.com/fantasy/v2/player/stats"

\* What the API can answer: nothing (the transport fails), 200 with the
\* data, or an error status whose body is text, a JSON object with the
\* provider's error_description, or a JSON object without it.
ApiResponses ==
    {TransportError,
     [net |-> "ok", status |-> 200,
      body |-> [shape |-> "dict", d |-> [fantasy_content |-> "stats"]]],
     [net |-> "ok", status |-> 401,
      body |-> [shape |-> "dict",
                d |-> [error_description |-> "token expired"]]],
     [net |-> "ok", status |-> 500,
      body |-> [shape |-> "text", d |-> NoData]]}

\* get_session, the headers of the session it creates.
session_headers(cfg) ==
    [Authorization |-> <<"Bearer", cfg.access_token>>,
     User_Agent |-> "MFL-Prop-Bets/1.0", Accept |-> "application/json"]

\* get_session without its test of self.config.access_token.
get_session_unchecked(w, t, resp, io) ==
    ensure_valid_token(w, t, resp, io)

\* get_session up to the creation of the session: an error of
\* ensure_valid_token propagates, a record without access_token is refused.
get_session(w, t, resp, io) ==
    LET w1 == ensure_valid_token(w, t, resp, io)
    IN  IF w1.err # "none"
        THEN w1
        ELSE IF w1.config = NoConfig \/ ~Truthy(w1.config.access_token)
        THEN Raise(w1, "No valid access token available")
        ELSE [w1 EXCEPT !.http.open = @ + 1]

\* send_request that drops the token when the API refuses the request.
send_request_invalidating(w, method, url, apiresp) ==
    LET w1 == [w EXCEPT !.api = Append(@, [method |-> method, url |-> url,
                                  headers |-> session_headers(w.config)]),
                        !.apiresp = apiresp]
    IN  IF apiresp.net = "error"
        THEN Raise(w1, "Request failed")
        ELSE IF ~is_success(apiresp.status)
        THEN Raise([w1 EXCEPT !.config.access_token = None], "HTTP error")
        ELSE w1

\* session.request(method, url) and response.raise_for_status(): the request
\* goes out with the session's headers; a transport error and a status
\* outside 2xx are raised as YahooOAuthError, with "HTTP <status> error:
\* <url>" as the whole message of the latter.
send_request(w, method, url, apiresp) ==
    LET w1 == [w EXCEPT !.api = Append(@, [method |-> method, url |-> url,
                                  headers |-> session_headers(w.config)]),
                        !.apiresp = apiresp]
    IN  IF apiresp.net = "error"
        THEN Raise(w1, "Request failed")
        ELSE IF ~is_success(apiresp.status)
        THEN Raise(w1, "HTTP error")
        ELSE w1

\* make_request that goes on to the request when get_session raised.
make_request_swallowing(w, t, method, url, resp, io, apiresp) ==
    LET w1 == get_session(w, t, resp, io)
    IN  send_request([w1 EXCEPT !.err = "none", !.detail = None],
                     method, url, apiresp)

\* make_request that sends the request again after a transport error.
make_request_retrying(w, t, method, url, resp, io, apiresp) ==
    LET w1 == get_session(w, t, resp, io)
    IN  IF w1.err # "none"
        THEN w1
        ELSE LET w2 == send_request(w1, method, url, apiresp)
             IN  IF w2.err = "Request failed"
                 THEN send_request([w2 EXCEPT !.err = "none"],
                                   method, url, apiresp)
                 ELSE w2

\* The end of `with self.get_session() as session`: the session is closed
\* however the block is left.
close_session(w) == [w EXCEPT !.http.open = @ - 1]

make_request(w, t, method, url, resp, io, apiresp) ==
    LET w1 == get_session(w, t, resp, io)
    IN  IF w1.err # "none"
        THEN w1
        ELSE close_session(send_request(w1, method, url, apiresp))

get(w, t, url, resp, io, apiresp) ==
    make_request(w, t, "GET", url, resp, io, apiresp)

post(w, t, url, resp, io, apiresp) ==
    make_request(w, t, "POST", url, resp, io, apiresp)

----------------------------------------------------------------------------
(* get_auth_url *)

auth_url == "https://api.login.yahoo.com/oauth2/request_auth"

\* urllib.parse.quote_plus on the values that occur: letters, digits and
\* "-" stay, ":" and "/" are percent-encoded.
quote_plus(v) ==
    IF v = "https://cb" THEN "https%3A%2F%2Fcb" ELSE v

\* urllib.parse.urlencode(params): the pairs in the order of insertion.
urlencode(params) ==
    [i \in 1..Len(params) |-> <<params[i][1], quote_plus(params[i][2])>>]

\* get_auth_url that adds the state parameter whatever it is given.
get_auth_url_always_state(w, redirect_uri, state) ==
    [w EXCEPT !.ret =
        [base |-> auth_url,
         query |-> urlencode(<< <<"client_id", w.config.consumer_key>>,
                                <<"redirect_uri", redirect_uri>>,
                                <<"response_type", "code">>,
                                <<"scope", "fspt-r">>,
                                <<"state", state>> >>)]]

get_auth_url(w, redirect_uri, state) ==
    IF w.config = NoConfig
    THEN Raise(w, "Configuration not loaded")
    ELSE LET params == << <<"client_id", w.config.consumer_key>>,
                          <<"redirect_uri", redirect_uri>>,
                          <<"response_type", "code">>,
                          <<"scope", "fspt-r">> >>
         IN  [w EXCEPT !.ret =
                [base |-> auth_url,
                 query |-> urlencode(IF Truthy(state)
                                     THEN Append(params, <<"state", state>>)
                                     ELSE params)]]

----------------------------------------------------------------------------
(* The state machine *)

\* The outcomes of the file write that a call can tell apart: the write is
\* reached only with a 2xx response that holds an access_token.
SaveOutcomesFor(resp) ==
    IF resp.net = "ok" /\ is_success(resp.status) /\ has_access_token(resp.body)
    THEN SaveOutcomes
    ELSE {"written"}

\* The token endpoint answers only a request that is sent: refresh sends
\* one when there is a refresh token, ensure_valid_token when moreover the
\* token is not valid.
RefreshResponses ==
    IF has_refresh_token(config) THEN Responses ELSE {NoResponse}

EnsureResponses ==
    IF is_token_valid(config, now) THEN {NoResponse} ELSE RefreshResponses

Codes == {"abc123"}
RedirectURIs == {"https://cb"}
States == {None, "", "xyz"}

\* The threads of the host application that share the manager.
Callers == {"c1", "c2"}

\* A thread that is not inside a method of the manager.
Outside ==
    [pc |-> "outside", seen |-> NoConfig, observed |-> "nothing",
     sent |-> <<>>, current |-> None, resp |-> NoResponse,
     before |-> NoConfig]

NoCall ==
    [op |-> "none", time |-> StartTime, pre |-> OAuthConfig(FreshData),
     prefile |-> [state |-> "ok", data |-> NoData],
     reqs |-> <<>>, saves |-> 0, resp |-> NoResponse, api |-> <<>>,
     apiresp |-> NoResponse, err |-> "none", detail |-> None,
     ret |-> NoUrl, valid |-> FALSE, redirect_uri |-> None, state |-> None]

\* __init__ returned: _load_config read the file into self.config.
Init ==
    /\ config_file \in StoredFiles
    /\ config = OAuthConfig(config_file.data)
    /\ now = StartTime
    /\ nticks = 0
    /\ call = NoCall
    /\ http = [session |-> "open", open |-> 1]
    /\ callers = [c \in Callers |-> Outside]

\* The call `op`, given redirect_uri and state, ran to w: the record and the
\* file are what it left, and the caller sees w.err or w.ret.
ReturnFrom(op, redirect_uri, state, w) ==
    /\ config' = w.config
    /\ config_file' = w.file
    /\ call' = [op |-> op, time |-> now, pre |-> config,
                prefile |-> config_file, reqs |-> w.reqs, saves |-> w.saves,
                resp |-> w.resp, api |-> w.api, apiresp |-> w.apiresp,
                err |-> w.err, detail |-> w.detail, ret |-> w.ret,
                valid |-> w.valid,
                redirect_uri |-> redirect_uri, state |-> state]
    /\ http' = w.http
    /\ UNCHANGED <<now, nticks, callers>>

\* The same for a call that takes neither.
Return(op, w) == ReturnFrom(op, None, None, w)

\* Time passes between calls; the caller is done with the last call.
Tick ==
    \E d \in Deltas :
        /\ nticks < MaxTicks
        /\ now' = now + d
        /\ nticks' = nticks + 1
        /\ call' = NoCall
        /\ UNCHANGED <<config, config_file, http, callers>>

EnsureValidToken ==
    \E resp \in EnsureResponses : \E io \in SaveOutcomesFor(resp) :
        Return("ensure_valid_token",
               ensure_valid_token(Begin(config, config_file), now, resp, io))

RefreshAccessToken ==
    \E resp \in RefreshResponses : \E io \in SaveOutcomesFor(resp) :
        Return("refresh_access_token",
               refresh_access_token(Begin(config, config_file), now, resp, io))

ExchangeCodeForToken ==
    \E code \in Codes, uri \in RedirectURIs, resp \in Responses :
      \E io \in SaveOutcomesFor(resp) :
        Return("exchange_code_for_token",
               exchange_code_for_token(Begin(config, config_file), now,
                                       code, uri, resp, io))

\* The API answers only a request that is sent: one that got its session.
ApiResponsesFor(resp, io) ==
    IF get_session(Begin(config, config_file), now, resp, io).err = "none"
    THEN ApiResponses
    ELSE {NoResponse}

ApiGet ==
    \E resp \in EnsureResponses : \E io \in SaveOutcomesFor(resp) :
      \E apiresp \in ApiResponsesFor(resp, io) :
        Return("make_request",
               get(Begin(config, config_file), now, api_url, resp, io,
                   apiresp))

ApiPost ==
    \E resp \in EnsureResponses : \E io \in SaveOutcomesFor(resp) :
      \E apiresp \in ApiResponsesFor(resp, io) :
        Return("make_request",
               post(Begin(config, config_file), now, api_url, resp, io,
                    apiresp))

IsTokenValid ==
    Return("is_token_valid",
           [Begin(config, config_file) EXCEPT
              !.valid = is_token_valid(config, now)])

GetAuthUrl ==
    \E uri \in RedirectURIs, state \in States :
        ReturnFrom("get_auth_url", uri, state,
                   get_auth_url(Begin(config, config_file), uri, state))

Next ==
    \/ Tick
    \/ EnsureValidToken
    \/ RefreshAccessToken
    \/ ExchangeCodeForToken
    \/ ApiGet
    \/ ApiPost
    \/ GetAuthUrl
    \/ IsTokenValid

Spec == Init /\ [][Next]_vars

----------------------------------------------------------------------------
(* YahooClient: one API call of the client checks the token itself and then
   goes through YahooOAuth.get, which checks it again.  The third state
   machine is the manager as the client drives it. *)

stats_url ==
    "https://fantasysports.yahooapis.com/fantasy/v2/league/players/stats"
roster_url ==
    "https://fantasysports.yahooapis.com/fantasy/v2/team/roster"

\* The seconds that pass between the client's check and the manager's.
Gaps == {0, 1}

\* YahooClient._ensure_authenticated: ensure_valid_token, its error logged
\* and raised again.
_ensure_authenticated(w, t, resp, io) == ensure_valid_token(w, t, resp, io)

\* _ensure_authenticated(), then self.oauth.get(url, params=...) gap seconds
\* later: the part of get_player_stats and of get_team_info that talks to
\* the manager.
authenticated_get(w, t, gap, url, resp1, io1, resp2, io2, apiresp) ==
    LET w1 == _ensure_authenticated(w, t, resp1, io1)
    IN  IF w1.err # "none"
        THEN w1
        ELSE get(w1, t + gap, url, resp2, io2, apiresp)

get_player_stats(w, t, gap, resp1, io1, resp2, io2, apiresp) ==
    authenticated_get(w, t, gap, stats_url, resp1, io1, resp2, io2, apiresp)

get_team_info(w, t, gap, resp1, io1, resp2, io2, apiresp) ==
    authenticated_get(w, t, gap, roster_url, resp1, io1, resp2, io2, apiresp)

\* The token endpoint answers the manager's check only when that check
\* sends a refresh grant: the client's check passed and left a record that
\* is not valid gap seconds later.
SecondResponses(w1, gap) ==
    IF w1.err = "none" /\ ~is_token_valid(w1.config, now + gap)
       /\ has_refresh_token(w1.config)
    THEN Responses
    ELSE {NoResponse}

\* The client's calls are made one at a time with the clock moving between
\* them: a call starts from a state that Init or Tick left.

\* The API answers only when the manager's check gave a session.
ClientApiResponses(w1, gap, resp2, io2) ==
    IF w1.err = "none" /\ get_session(w1, now + gap, resp2, io2).err = "none"
    THEN ApiResponses
    ELSE {NoResponse}

GetPlayerStats ==
    /\ call.op = "none"
    /\ \E resp1 \in EnsureResponses : \E io1 \in SaveOutcomesFor(resp1) :
      LET w1 == _ensure_authenticated(Begin(config, config_file), now,
                                      resp1, io1)
      IN  \E gap \in Gaps : \E resp2 \in SecondResponses(w1, gap) :
            \E io2 \in SaveOutcomesFor(resp2) :
              \E apiresp \in ClientApiResponses(w1, gap, resp2, io2) :
                Return("get_player_stats",
                       get_player_stats(Begin(config, config_file), now, gap,
                                        resp1, io1, resp2, io2, apiresp))

GetTeamInfo ==
    /\ call.op = "none"
    /\ \E resp1 \in EnsureResponses : \E io1 \in SaveOutcomesFor(resp1) :
      LET w1 == _ensure_authenticated(Begin(config, config_file), now,
                                      resp1, io1)
      IN  \E gap \in Gaps : \E resp2 \in SecondResponses(w1, gap) :
            \E io2 \in SaveOutcomesFor(resp2) :
              \E apiresp \in ClientApiResponses(w1, gap, resp2, io2) :
                Return("get_team_info",
                       get_team_info(Begin(config, config_file), now, gap,
                                     resp1, io1, resp2, io2, apiresp))

ClientNext ==
    \/ Tick
    \/ GetPlayerStats
    \/ GetTeamInfo

ClientSpec == Init /\ [][ClientNext]_vars

----------------------------------------------------------------------------
(* Concurrent callers.  The manager has no lock, so threads that share it
   run ensure_valid_token statement by statement, interleaved.  The fourth
   state machine has one step per statement that reads or writes the shared
   record, the token endpoint or the file. *)

\* What the token endpoint answers a refresh grant here: a token with a new
\* refresh token, a token alone, or a refusal.
ConcResponses ==
    {[net |-> "ok", status |-> 200,
      body |-> [shape |-> "dict", d |-> BodyDict("T1", "R1")]],
     [net |-> "ok", status |-> 200,
      body |-> [shape |-> "dict", d |-> BodyDict("T1", "absent")]],
     [net |-> "ok", status |-> 401,
      body |-> [shape |-> "dict",
                d |-> [error_description |-> "invalid grant"]]]}

\* refresh_access_token that looks again whether the token is still invalid
\* before it sends the grant.
may_refresh_rechecking(cfg, t) ==
    has_refresh_token(cfg) /\ ~is_token_valid(cfg, t)

\* refresh_access_token, first statement, as the thread that is about to
\* refresh runs it.
may_refresh(cfg, t) == has_refresh_token(cfg)

At(c, pc) == callers[c].pc = pc

Goto(c, pc, rec) ==
    callers' = [callers EXCEPT ![c] = [rec EXCEPT !.pc = pc]]

\* ensure_valid_token: `if not self.is_token_valid()`, reading the record.
Check(c) ==
    /\ At(c, "outside")
    /\ callers[c].observed = "nothing"
    /\ Goto(c, IF is_token_valid(config, now) THEN "outside" ELSE "refresh",
            [callers[c] EXCEPT
               !.seen = config,
               !.observed = IF is_token_valid(config, now)
                            THEN "valid" ELSE "expired"])
    /\ UNCHANGED <<config, config_file, now, nticks, call, http>>

\* refresh_access_token: the test of refresh_token and the form, built from
\* the record as it is now.
BuildData(c) ==
    /\ At(c, "refresh")
    /\ IF may_refresh(config, now)
       THEN Goto(c, "post", [callers[c] EXCEPT
                               !.sent = <<refresh_data(config)>>])
       ELSE Goto(c, "outside", callers[c])
    /\ UNCHANGED <<config, config_file, now, nticks, call, http>>

\* self.session.post(...) and raise_for_status(): the grant goes out; the
\* thread remembers what refresh_token the record had at that moment.
Send(c) ==
    /\ At(c, "post")
    /\ \E resp \in ConcResponses :
         Goto(c, IF is_success(resp.status) THEN "set_access_token"
                 ELSE "outside",
              [callers[c] EXCEPT !.resp = resp,
                                 !.current = config.refresh_token])
    /\ UNCHANGED <<config, config_file, now, nticks, call, http>>

\* self.config.access_token = token_data["access_token"]
SetAccessToken(c) ==
    /\ At(c, "set_access_token")
    /\ config' = [config EXCEPT
                    !.access_token = callers[c].resp.body.d["access_token"]]
    /\ Goto(c, "set_token_time", [callers[c] EXCEPT !.before = config])
    /\ UNCHANGED <<config_file, now, nticks, call, http>>

\* self.config.token_time = time.time()
SetTokenTime(c) ==
    /\ At(c, "set_token_time")
    /\ config' = [config EXCEPT !.token_time = now]
    /\ Goto(c, "set_refresh_token", callers[c])
    /\ UNCHANGED <<config_file, now, nticks, call, http>>

\* if "refresh_token" in token_data: self.config.refresh_token = ...
SetRefreshToken(c) ==
    /\ At(c, "set_refresh_token")
    /\ config' = IF "refresh_token" \in DOMAIN callers[c].resp.body.d
                 THEN [config EXCEPT !.refresh_token =
                         callers[c].resp.body.d["refresh_token"]]
                 ELSE config
    /\ Goto(c, "save", callers[c])
    /\ UNCHANGED <<config_file, now, nticks, call, http>>

\* self._save_config(), with the record as it is now.
Save(c) ==
    /\ At(c, "save")
    /\ \E io \in SaveOutcomes :
         config_file' = _save_config(config, config_file, io).file
    /\ Goto(c, "outside", callers[c])
    /\ UNCHANGED <<config, now, nticks, call, http>>

ConcNext ==
    \E c \in Callers :
        \/ Check(c)
        \/ BuildData(c)
        \/ Send(c)
        \/ SetAccessToken(c)
        \/ SetTokenTime(c)
        \/ SetRefreshToken(c)
        \/ Save(c)

ConcSpec == Init /\ [][ConcNext]_vars

----------------------------------------------------------------------------
(* Construction and the file: __init__, _load_config, _save_config.  The
   second state machine starts before the manager exists, with any content
   at the path, and follows construction, saves of the loaded record and a
   crash of the process inside a save. *)

RequiredKeys == {"consumer_key", "consumer_secret"}

\* A key that is no field of OAuthConfig.
UnknownKey == "league_id"

\* The value a file gives to a key.
FileValue(k) ==
    CASE k = "access_token" -> "T0"
      [] k = "consumer_key" -> "ck"
      [] k = "consumer_secret" -> "cs"
      [] k = "refresh_token" -> "R0"
      [] k = "token_time" -> StartTime
      [] k = "token_type" -> "bearer"
      [] k = "guid" -> "g1"
      [] OTHER -> "nfl"

\* What can be at the path: nothing, text that is no JSON, JSON that is no
\* object, and JSON objects with any of the known keys and the unknown one,
\* or with nulls for the optional keys.
AnyFiles ==
    {[state |-> "missing", data |-> NoData],
     [state |-> "truncated", data |-> NoData],
     [state |-> "not_object", data |-> NoData]}
    \cup {[state |-> "ok", data |-> [k \in ks |-> FileValue(k)]] :
            ks \in SUBSET (Keys \cup {UnknownKey})}
    \cup StoredFiles

\* OAuthConfig(**data) validates: the required fields are there (and are
\* strings).
validates(data) ==
    \A k \in RequiredKeys : k \in DOMAIN data /\ data[k] # None

\* _load_config that fills a record from whatever the file has.
_load_config_partial(w) ==
    IF w.file.state = "ok" /\ validates(w.file.data)
    THEN [w EXCEPT !.config = OAuthConfig(w.file.data)]
    ELSE [w EXCEPT !.config = [NoConfig EXCEPT !.token_type = "bearer"]]

_load_config(w) ==
    IF w.file.state = "missing"
    THEN Raise(w, "OAuth config file not found")
    ELSE IF w.file.state = "truncated"
    THEN Raise(w, "Invalid JSON in config file")
    ELSE IF w.file.state # "ok" \/ ~validates(w.file.data)
    THEN Raise(w, "Error loading config")
    ELSE [w EXCEPT !.config = OAuthConfig(w.file.data)]

\* __init__: self.config = None, self.session = httpx.Client(...), then
\* self._load_config(); an exception of _load_config leaves __init__, no
\* manager is returned, and nothing closes the client.
__init__(file) ==
    LET w == _load_config(
               [Begin(NoConfig, file) EXCEPT
                  !.http = [session |-> "open", open |-> @.open + 1]])
    IN  IF w.err # "none"
        THEN [w EXCEPT !.http.session = "none"]
        ELSE w

\* __exit__: self.session.close(); closing a closed client does nothing.
__exit__(w) ==
    IF w.http.session = "open"
    THEN [w EXCEPT !.http = [session |-> "closed", open |-> @.open - 1]]
    ELSE w

\* A call of _save_config by itself: its errors are raised as
\* "Error saving config".
save_config(w, io) ==
    IF w.config = NoConfig
    THEN Raise(w, "No configuration to save")
    ELSE SaveInTry(w, io, "Error saving config")

\* Where the process can die inside _save_config: before open(..., "w"),
\* between open and the end of json.dump, after the file is closed.
CrashPoints == {"before_open", "while_writing", "after_close"}

\* The process dies inside _save_config: the manager and its clients are
\* gone and the file is what the statements run so far made of it.
crash_in_save(w, point) ==
    [w EXCEPT !.config = NoConfig, !.err = "crash",
              !.http = [session |-> "none", open |-> 0],
              !.file = IF point = "before_open" THEN w.file
                       ELSE _save_config(w.config, w.file,
                              IF point = "after_close" THEN "written"
                              ELSE "write_fails").file]

\* Before construction: no manager, anything at the path.
LoadInit ==
    /\ config = NoConfig
    /\ config_file \in AnyFiles
    /\ now = StartTime
    /\ nticks = 0
    /\ call = NoCall
    /\ http = [session |-> "none", open |-> 0]
    /\ callers = [c \in Callers |-> Outside]

\* How many clients the process may have open.
MaxClients == 2

\* YahooOAuth(config_file), also after a failed construction or a crash.
Construct ==
    /\ config = NoConfig
    /\ http.open < MaxClients
    /\ Return("__init__", __init__(config_file))

\* The manager is used until its teardown.
InUse == config # NoConfig /\ http.session = "open"

\* A request of the manager that was constructed.
Request ==
    /\ InUse
    /\ ApiGet

\* Teardown: the end of `with YahooOAuth(...) as oauth`.
Exit ==
    /\ InUse
    /\ Return("__exit__", __exit__(Begin(config, config_file)))

SaveConfig ==
    /\ config # NoConfig
    /\ \E io \in SaveOutcomes :
         Return("_save_config", save_config(Begin(config, config_file), io))

CrashInSave ==
    /\ config # NoConfig
    /\ \E point \in CrashPoints :
         Return("_save_config",
                crash_in_save(Begin(config, config_file), point))

LoadNext ==
    \/ Construct
    \/ SaveConfig
    \/ CrashInSave
    \/ Request
    \/ Exit

LoadSpec == LoadInit /\ [][LoadNext]_vars

----------------------------------------------------------------------------
(* The vocabulary of the specification, stated apart from the code's own
   tests: a value is present when it is neither None nor empty, and a token
   is within the validity window when it has an issue time less than the
   window ago. *)

Present(v) == v # None /\ v # ""

WithinWindow(cfg, t) ==
    cfg.token_time # NoTime /\ t - cfg.token_time < ValidityWindow

\* Valid, as the specification's state machine defines it.
IsValidAt(cfg, t) == Present(cfg.access_token) /\ WithinWindow(cfg, t)

Non2xx(resp) == resp.net = "ok" /\ (resp.status < 200 \/ resp.status > 299)

\* The body is no JSON object with an access_token member.
LacksAccessToken(resp) ==
    resp.net = "ok"
    /\ (resp.body.shape # "dict" \/ "access_token" \notin DOMAIN resp.body.d)

\* The last call changed nothing: not the record, not the file.
Untouched == config = call.pre /\ config_file = call.prefile

RefreshRequest(cfg) ==
    [url |-> token_url, grant_type |-> "refresh_token",
     client_id |-> cfg.consumer_key, client_secret |-> cfg.consumer_secret,
     refresh_token |-> cfg.refresh_token]

----------------------------------------------------------------------------
\* C1: ensure_valid_token on a record whose access_token is present and whose
\* token_time is within the validity window sends no request, saves nothing
\* and leaves the record (and the file) as they were.
C1_ValidEnsureIsNoOp ==
    (call.op = "ensure_valid_token" /\ IsValidAt(call.pre, call.time))
    => /\ call.reqs = <<>>
       /\ call.saves = 0
       /\ call.err = "none"
       /\ Untouched

\* A valid record that also holds a refresh token went through
\* ensure_valid_token, one second before the window closes.
C1_Witness ==
    /\ call.op = "ensure_valid_token"
    /\ IsValidAt(call.pre, call.time)
    /\ call.time - call.pre.token_time = ValidityWindow - 1
    /\ Present(call.pre.refresh_token)
    /\ call.reqs = <<>>

\* C2: ensure_valid_token on a record that is not valid (no access_token, or
\* a token_time a window or more ago) and that holds a refresh token sends
\* exactly one refresh-token grant to the token endpoint, whether the request
\* succeeds or fails.
C2_ExpiredEnsureRefreshesOnce ==
    (/\ call.op = "ensure_valid_token"
     /\ ~IsValidAt(call.pre, call.time)
     /\ Present(call.pre.refresh_token))
    => call.reqs = <<RefreshRequest(call.pre)>>

\* A token aged exactly the window went through ensure_valid_token and the
\* one request it sent failed.
C2_Witness ==
    /\ call.op = "ensure_valid_token"
    /\ Present(call.pre.access_token)
    /\ call.time - call.pre.token_time = ValidityWindow
    /\ Present(call.pre.refresh_token)
    /\ Len(call.reqs) = 1
    /\ call.err # "none"

\* C3 as stated: after a successful refresh the file holds an access_token
\* that differs from the one before the refresh, and a token_time equal to
\* the time of the refresh.
C3_RefreshedTokenDiffers ==
    (call.op = "refresh_access_token" /\ call.err = "none")
    => /\ config_file.state = "ok"
       /\ config_file.data["access_token"] # call.pre.access_token
       /\ config_file.data["token_time"] = call.time

\* C3 amended: after a successful refresh the file holds the access_token of
\* the endpoint's response, whether or not it differs from the one before,
\* and a token_time equal to the time of the refresh.
C3_RefreshPersistsReturnedToken ==
    (call.op = "refresh_access_token" /\ call.err = "none")
    => /\ config_file.state = "ok"
       /\ config_file.data["access_token"] = call.resp.body.d["access_token"]
       /\ config_file.data["token_time"] = call.time

\* A refresh succeeded with the token the record already held, issued at
\* another time.
C3_Witness ==
    /\ call.op = "refresh_access_token"
    /\ call.err = "none"
    /\ Present(call.pre.access_token)
    /\ config_file.data["access_token"] = call.pre.access_token
    /\ call.pre.token_time # call.time

\* C4: whenever refresh_access_token or exchange_code_for_token returns
\* without error, loading the file gives the record's access_token,
\* refresh_token and token_time.
C4_SuccessIsDurable ==
    (call.op \in {"refresh_access_token", "exchange_code_for_token"}
     /\ call.err = "none")
    => /\ config_file.state = "ok"
       /\ OAuthConfig(config_file.data).access_token = config.access_token
       /\ OAuthConfig(config_file.data).refresh_token = config.refresh_token
       /\ OAuthConfig(config_file.data).token_time = config.token_time

\* An exchange succeeded on the file of a first run and rewrote it.
C4_Witness ==
    /\ call.op = "exchange_code_for_token"
    /\ call.err = "none"
    /\ call.prefile.data = FreshData
    /\ Present(config.access_token)
    /\ config_file # call.prefile

\* C5: when the refresh request fails in transport, is answered with a status
\* that is no 2xx, or is answered with a body without access_token,
\* refresh_access_token raises, and neither the record nor the file changes.
C5_FailedRefreshChangesNothing ==
    (/\ call.op = "refresh_access_token"
     /\ \/ call.resp.net = "error"
        \/ Non2xx(call.resp)
        \/ LacksAccessToken(call.resp))
    => /\ call.err # "none"
       /\ call.saves = 0
       /\ Untouched

\* The endpoint answered a refresh with 401 and a JSON object.
C5_Witness ==
    /\ call.op = "refresh_access_token"
    /\ call.resp.net = "ok"
    /\ call.resp.status = 401
    /\ call.resp.body.shape = "dict"
    /\ call.err = "HTTP error refreshing token"

\* C6 as stated: whenever refresh_access_token or exchange_code_for_token
\* raises, for any reason, the record in memory is what it was before the
\* call; and a failed save is raised, not swallowed.
C6_NoPartialUpdateOnError ==
    /\ (call.op \in {"refresh_access_token", "exchange_code_for_token"}
        /\ call.err # "none")
       => config = call.pre
    /\ (call.saves > 0 /\ config_file # [state |-> "ok", data |-> model_dump(config)])
       => call.err # "none"

\* C7: refresh_access_token on a record without refresh token raises "No
\* refresh token available", sends nothing, saves nothing and changes
\* nothing; so does ensure_valid_token on such a record that is not valid.
C7_NoRefreshTokenNoRequest ==
    (/\ ~Present(call.pre.refresh_token)
     /\ \/ call.op = "refresh_access_token"
        \/ (call.op = "ensure_valid_token" /\ ~IsValidAt(call.pre, call.time)))
    => /\ call.err = "No refresh token available"
       /\ call.reqs = <<>>
       /\ call.saves = 0
       /\ Untouched

\* An expired token without refresh token went through ensure_valid_token.
C7_Witness ==
    /\ call.op = "ensure_valid_token"
    /\ Present(call.pre.access_token)
    /\ call.pre.token_time # NoTime
    /\ ~WithinWindow(call.pre, call.time)
    /\ call.pre.refresh_token = None
    /\ call.err = "No refresh token available"

\* C8: after a successful refresh the record's access_token is the returned
\* one and its refresh_token is the returned one if the response has one and
\* the one before the refresh otherwise; and no refresh, successful or not,
\* changes the refresh_token to anything but a value the response holds.
C8_RefreshTokenRotation ==
    (call.op \in {"refresh_access_token", "ensure_valid_token"})
    => /\ (call.err = "none" /\ call.reqs # <<>>)
          => /\ config.access_token = call.resp.body.d["access_token"]
             /\ config.refresh_token =
                  IF "refresh_token" \in DOMAIN call.resp.body.d
                  THEN call.resp.body.d["refresh_token"]
                  ELSE call.pre.refresh_token
       /\ config.refresh_token # call.pre.refresh_token
          => /\ call.resp.net = "ok"
             /\ "refresh_token" \in DOMAIN call.resp.body.d
             /\ config.refresh_token = call.resp.body.d["refresh_token"]

\* A refresh succeeded on a response without refresh_token and the record
\* kept the refresh token it had.
C8_Witness ==
    /\ call.op = "refresh_access_token"
    /\ call.err = "none"
    /\ "refresh_token" \notin DOMAIN call.resp.body.d
    /\ Present(call.pre.refresh_token)
    /\ config.refresh_token = call.pre.refresh_token
    /\ config.access_token # call.pre.access_token

\* C9 as stated: when exchange_code_for_token succeeds on a response with an
\* access_token and no refresh_token, the record's access_token is the
\* returned one, its refresh_token is what it was before the call, and the
\* record was saved exactly once.
C9_ExchangeKeepsRefreshToken ==
    (/\ call.op = "exchange_code_for_token"
     /\ call.err = "none"
     /\ "refresh_token" \notin DOMAIN call.resp.body.d)
    => /\ config.access_token = call.resp.body.d["access_token"]
       /\ config.refresh_token = call.pre.refresh_token
       /\ call.saves = 1

\* C10: when the exchange request is answered with a status that is no 2xx or
\* with a body without access_token, exchange_code_for_token raises, a record
\* without access_token still has none, and neither the record nor the file
\* changes.
C10_FailedExchangeChangesNothing ==
    (/\ call.op = "exchange_code_for_token"
     /\ (Non2xx(call.resp) \/ LacksAccessToken(call.resp)))
    => /\ call.err # "none"
       /\ call.saves = 0
       /\ Untouched
       /\ ~Present(call.pre.access_token) => ~Present(config.access_token)

\* An exchange on a record without access_token was answered with 200 and a
\* JSON object that holds a refresh_token and no access_token.
C10_Witness ==
    /\ call.op = "exchange_code_for_token"
    /\ ~Present(call.pre.access_token)
    /\ call.resp.net = "ok"
    /\ call.resp.status = 200
    /\ call.resp.body.shape = "dict"
    /\ DOMAIN call.resp.body.d = {"refresh_token"}
    /\ call.err = "Failed to exchange code for token"

----------------------------------------------------------------------------
(* Claims about make_request *)

\* The errors that ensure_valid_token raises.
EnsureErrors ==
    {"No refresh token available", "Unexpected error refreshing token",
     "HTTP error refreshing token"}

\* The token endpoint's answer is one that refresh_access_token can use.
RefreshAnswered ==
    /\ Len(call.reqs) = 1
    /\ call.resp.net = "ok"
    /\ ~Non2xx(call.resp)
    /\ ~LacksAccessToken(call.resp)

\* C11: make_request (get, post) settles the token first.  When the record
\* is not valid at the call, an API request goes out only after one refresh
\* grant that the token endpoint answered with a token, and it carries that
\* token; when the refresh is not sent or not answered so, its error reaches
\* the caller and no request is sent to the target URL.
C11_StaleTokenNeverSent ==
    (call.op = "make_request" /\ ~IsValidAt(call.pre, call.time))
    => /\ call.api # <<>>
          => /\ RefreshAnswered
             /\ call.reqs[1] = RefreshRequest(call.pre)
             /\ \A i \in 1..Len(call.api) :
                  call.api[i].headers.Authorization
                    = <<"Bearer", call.resp.body.d["access_token"]>>
       /\ ~RefreshAnswered => (call.err \in EnsureErrors /\ call.api = <<>>)
       /\ call.err \in EnsureErrors => call.api = <<>>

\* An expired record went through make_request, the token endpoint refused
\* the refresh, and the caller got that error with nothing sent to the API.
C11_Witness ==
    /\ call.op = "make_request"
    /\ Present(call.pre.access_token)
    /\ call.pre.token_time # NoTime
    /\ ~WithinWindow(call.pre, call.time)
    /\ Len(call.reqs) = 1
    /\ Non2xx(call.resp)
    /\ call.err = "HTTP error refreshing token"
    /\ call.api = <<>>

\* C12: every request that make_request sends to the API carries
\* "Authorization: Bearer <the record's access_token>", and when it is sent
\* that token is present and younger than the validity window.
C12_RequestsCarryValidToken ==
    call.op = "make_request"
    => \A i \in 1..Len(call.api) :
         /\ call.api[i].headers.Authorization
              = <<"Bearer", config.access_token>>
         /\ IsValidAt(config, call.time)

\* After the clock moved past the window, make_request refreshed the token
\* and sent the request with the new one.
C12_Witness ==
    /\ call.op = "make_request"
    /\ nticks > 0
    /\ Present(call.pre.access_token)
    /\ ~WithinWindow(call.pre, call.time)
    /\ Len(call.reqs) = 1
    /\ Len(call.api) = 1
    /\ call.api[1].headers.Authorization = <<"Bearer", config.access_token>>
    /\ config.access_token # call.pre.access_token

\* C13: in every reachable state access_token and token_time are both set
\* or both absent.
C13_TokenAndTimeSetTogether ==
    (config.access_token # None) <=> (config.token_time # NoTime)

\* C17: nothing is retried.  One call sends at most one request to the token
\* endpoint and at most one to the API; a request that fails ends the call
\* with its error, and a failed token request is followed by no API request.
C17_AtMostOneRequestPerCall ==
    /\ Len(call.reqs) <= 1
    /\ Len(call.api) <= 1
    /\ (Len(call.reqs) = 1 /\ (call.resp.net = "error" \/ Non2xx(call.resp)))
       => (call.err # "none" /\ call.api = <<>>)
    /\ (Len(call.api) = 1
        /\ (call.apiresp.net = "error" \/ Non2xx(call.apiresp)))
       => call.err # "none"

\* make_request refreshed the token, sent the request once, the transport
\* failed and the caller got the error.
C17_Witness ==
    /\ call.op = "make_request"
    /\ Len(call.reqs) = 1
    /\ Len(call.api) = 1
    /\ call.apiresp.net = "error"
    /\ call.err = "Request failed"

\* The operations that use a token without being given an authorization
\* code.
TokenUsers == {"ensure_valid_token", "refresh_access_token", "make_request"}

\* C19, as stated: while the record has no access_token, ensure_valid_token,
\* refresh_access_token and make_request never give it one.
C19_OnlyExchangeAuthenticates ==
    (call.op \in TokenUsers /\ ~Present(call.pre.access_token))
    => ~Present(config.access_token)

\* C19, amended: while the record has neither access_token nor
\* refresh_token, ensure_valid_token, refresh_access_token and make_request
\* fail without a request and leave the record and the file as they were;
\* with a refresh token they refresh, as the refresh rule says.
C19_NoTokensOnlyExchangeAuthenticates ==
    (call.op \in TokenUsers
     /\ ~Present(call.pre.access_token) /\ ~Present(call.pre.refresh_token))
    => /\ ~Present(config.access_token)
       /\ call.err = "No refresh token available"
       /\ call.reqs = <<>>
       /\ call.api = <<>>
       /\ Untouched

\* A record with the two credentials only went through make_request.
C19_Witness ==
    /\ call.op = "make_request"
    /\ ~Present(call.pre.access_token)
    /\ ~Present(call.pre.refresh_token)
    /\ call.err = "No refresh token available"
    /\ ~Present(config.access_token)

\* C20: when the API answers a request of make_request with a status outside
\* 2xx and a JSON object that has error_description, the error raised quotes
\* that description; on a transport error or a status outside 2xx
\* make_request raises and returns no response.
C20_ApiErrorQuotesDescription ==
    (call.op = "make_request" /\ Len(call.api) = 1)
    => /\ (call.apiresp.net = "error" \/ Non2xx(call.apiresp))
          => call.err # "none"
       /\ (/\ Non2xx(call.apiresp)
           /\ call.apiresp.body.shape = "dict"
           /\ "error_description" \in DOMAIN call.apiresp.body.d)
          => call.detail = call.apiresp.body.d["error_description"]

\* The value of parameter k in the query q, None when q has no k.
RECURSIVE Param(_, _)
Param(q, k) ==
    IF q = <<>> THEN None
    ELSE IF Head(q)[1] = k THEN Head(q)[2]
    ELSE Param(Tail(q), k)

\* C18: get_auth_url sends nothing, saves nothing and leaves the record and
\* the file as they were.  With a record loaded it does not fail, and the URL
\* it returns is the authorization endpoint with client_id, redirect_uri,
\* response_type=code and scope, and with state exactly when a state (one
\* that is not empty) was given; it fails only with no record loaded.
C18_GetAuthUrlIsPure ==
    call.op = "get_auth_url"
    => /\ Untouched
       /\ call.reqs = <<>> /\ call.api = <<>> /\ call.saves = 0
       /\ call.err # "none" <=> call.pre = NoConfig
       /\ call.err = "none"
          => /\ call.ret.base = auth_url
             /\ Param(call.ret.query, "client_id") = call.pre.consumer_key
             /\ Param(call.ret.query, "redirect_uri")
                  = quote_plus(call.redirect_uri)
             /\ Param(call.ret.query, "response_type") = "code"
             /\ Param(call.ret.query, "scope") = "fspt-r"
             /\ Len(call.ret.query) = IF Present(call.state) THEN 5 ELSE 4
             /\ Present(call.state)
                => Param(call.ret.query, "state") = call.state
             /\ ~Present(call.state)
                => \A i \in 1..Len(call.ret.query) :
                     call.ret.query[i][1] # "state"

\* get_auth_url was given a state and returned a URL that has it.
C18_Witness ==
    /\ call.op = "get_auth_url"
    /\ call.state = "xyz"
    /\ Param(call.ret.query, "state") = "xyz"
    /\ Param(call.ret.query, "client_id") = "ck"

----------------------------------------------------------------------------
(* Claims about the file *)

\* The file is one that _load_config accepts.
Loadable(file) ==
    /\ file.state = "ok"
    /\ \A k \in RequiredKeys : k \in DOMAIN file.data /\ file.data[k] # None

\* What a field has when the file says nothing about it.
Default(k) ==
    CASE k = "token_type" -> "bearer"
      [] k = "token_time" -> NoTime
      [] OTHER -> None

\* C14, as stated: saving the record loaded from a file that load accepts
\* leaves the file with the same keys and values.
C14_SaveLoadRoundTrip ==
    (call.op = "_save_config" /\ call.err = "none" /\ Loadable(call.prefile))
    => config_file = call.prefile

\* C14, amended: saving the record loaded from a file that load accepts
\* writes the seven known keys: each with the file's value when the file
\* had the key and with the default when it had not; unknown keys are
\* dropped.  A file that has exactly the seven known keys is left as it was.
C14_SaveWritesLoadedRecord ==
    (call.op = "_save_config" /\ call.err = "none" /\ Loadable(call.prefile))
    => /\ config_file.state = "ok"
       /\ DOMAIN config_file.data = Keys
       /\ \A k \in Keys :
            config_file.data[k] = IF k \in DOMAIN call.prefile.data
                                  THEN call.prefile.data[k] ELSE Default(k)
       /\ DOMAIN call.prefile.data = Keys => config_file = call.prefile

\* A file with an unknown key and without guid and token_type was loaded and
\* saved.
C14_Witness ==
    /\ call.op = "_save_config"
    /\ call.err = "none"
    /\ Loadable(call.prefile)
    /\ UnknownKey \in DOMAIN call.prefile.data
    /\ "guid" \notin DOMAIN call.prefile.data
    /\ "token_type" \notin DOMAIN call.prefile.data
    /\ "access_token" \in DOMAIN call.prefile.data
    /\ config_file.state = "ok"
    /\ UnknownKey \notin DOMAIN config_file.data

\* C15: construction fails with the not-found error when there is no file,
\* and with a malformed-file error when the content is no JSON, no object or
\* lacks consumer_key or consumer_secret.  After a failure there is no
\* manager and no record, and the file is as it was; after a success the
\* record has every field.
C15_ConstructionFailsWhole ==
    call.op = "__init__"
    => /\ call.prefile.state = "missing"
          <=> call.err = "OAuth config file not found"
       /\ (call.prefile.state # "missing" /\ ~Loadable(call.prefile))
          <=> call.err \in {"Invalid JSON in config file",
                            "Error loading config"}
       /\ call.err # "none" => config = NoConfig
       /\ call.err = "none"
          => /\ config # NoConfig
             /\ \A k \in RequiredKeys : config[k] = call.prefile.data[k]
       /\ config_file = call.prefile
       /\ call.saves = 0

\* Construction on a JSON object that has tokens but no consumer_secret
\* failed.
C15_Witness ==
    /\ call.op = "__init__"
    /\ call.prefile.state = "ok"
    /\ "access_token" \in DOMAIN call.prefile.data
    /\ "consumer_key" \in DOMAIN call.prefile.data
    /\ "consumer_secret" \notin DOMAIN call.prefile.data
    /\ call.err = "Error loading config"
    /\ config = NoConfig

\* C16: after a crash inside a save of a loaded record over a loadable
\* file, the file is the complete old one or the complete new one.
C16_CrashLeavesOldOrNew ==
    (call.op = "_save_config" /\ call.err = "crash"
     /\ Loadable(call.prefile))
    => \/ config_file = call.prefile
       \/ /\ config_file.state = "ok"
          /\ DOMAIN config_file.data = Keys
          /\ \A k \in Keys : config_file.data[k] = call.pre[k]

----------------------------------------------------------------------------
(* Claims about the record over its lifetime *)

\* C21: consumer_key and consumer_secret never change.  No call leaves them
\* different in memory from what they were before it, they are what the file
\* had at construction, and a save that wrote the file wrote them.
C21_CredentialsImmutable ==
    /\ config.consumer_key = "ck" /\ config.consumer_secret = "cs"
    /\ call.op # "none"
       => /\ config.consumer_key = call.pre.consumer_key
          /\ config.consumer_secret = call.pre.consumer_secret
    /\ (call.saves > 0 /\ config_file.state = "ok")
       => /\ config_file.data["consumer_key"] = call.pre.consumer_key
          /\ config_file.data["consumer_secret"] = call.pre.consumer_secret

\* A refresh replaced both tokens and wrote the file.
C21_Witness ==
    /\ call.op = "refresh_access_token"
    /\ call.err = "none"
    /\ call.saves = 1
    /\ config.access_token # call.pre.access_token
    /\ config.refresh_token # call.pre.refresh_token
    /\ config_file.state = "ok"
    /\ config_file.data["consumer_secret"] = "cs"

\* The three states of the record at clock reading t; a token without an
\* issue time has no age below the window and counts as expired.
Unauthenticated(cfg) == ~Present(cfg.access_token)
Expired(cfg, t) == Present(cfg.access_token) /\ ~WithinWindow(cfg, t)

\* C24: is_token_valid is true exactly when access_token is present,
\* token_time is present and now - token_time < 3300; at an age of exactly
\* 3300 the token is expired; every record is in exactly one of the states
\* Unauthenticated, Valid, Expired; and the test changes nothing.
C24_ValidityBoundary ==
    call.op = "is_token_valid"
    => /\ call.valid
          <=> /\ Present(call.pre.access_token)
              /\ call.pre.token_time # NoTime
              /\ call.time - call.pre.token_time < 3300
       /\ (Present(call.pre.access_token)
           /\ call.time - call.pre.token_time = 3300)
          => (~call.valid /\ Expired(call.pre, call.time))
       /\ call.valid <=> IsValidAt(call.pre, call.time)
       /\ \/ /\ Unauthenticated(call.pre)
             /\ ~IsValidAt(call.pre, call.time)
             /\ ~Expired(call.pre, call.time)
          \/ /\ ~Unauthenticated(call.pre)
             /\ IsValidAt(call.pre, call.time)
             /\ ~Expired(call.pre, call.time)
          \/ /\ ~Unauthenticated(call.pre)
             /\ ~IsValidAt(call.pre, call.time)
             /\ Expired(call.pre, call.time)
       /\ Untouched
       /\ call.reqs = <<>>

\* is_token_valid said no to a token aged exactly 3300 seconds.
C24_Witness ==
    /\ call.op = "is_token_valid"
    /\ Present(call.pre.access_token)
    /\ call.time - call.pre.token_time = 3300
    /\ ~call.valid

\* C25: when ensure_valid_token returns without error the record is valid:
\* access_token present, token_time present, age below the window.
C25_EnsureSuccessMeansValid ==
    (call.op = "ensure_valid_token" /\ call.err = "none")
    => IsValidAt(config, call.time)

\* C26: every refresh grant sent carries the refresh_token that the record
\* holds when the call begins, so a refresh token that a refresh replaced
\* is not sent again.
C26_RefreshSendsCurrentToken ==
    [][\A i \in 1..Len(call'.reqs) :
          call'.reqs[i].grant_type = "refresh_token"
          => /\ call'.reqs[i].refresh_token = config.refresh_token
             /\ (call.saves = 1 /\ call.err = "none"
                 /\ call.pre.refresh_token # config.refresh_token)
                => call'.reqs[i].refresh_token # call.pre.refresh_token]_vars

\* After a refresh that rotated R0 to R1, the next refresh sent R1.
C26_Witness ==
    /\ call.op \in {"refresh_access_token", "ensure_valid_token",
                    "make_request"}
    /\ Len(call.reqs) = 1
    /\ call.reqs[1].grant_type = "refresh_token"
    /\ call.pre.refresh_token = "R1"
    /\ call.reqs[1].refresh_token = "R1"

\* C27: when the API request of make_request fails, the record and the file
\* are as ensure_valid_token left them: untouched when the token was valid,
\* the refreshed record and its saved file when it was refreshed.  The
\* access token is the one the request carried.
C27_FailedRequestKeepsToken ==
    (call.op = "make_request" /\ Len(call.api) = 1 /\ call.err # "none")
    => /\ call.err \in {"Request failed", "HTTP error"}
       /\ call.api[1].headers.Authorization = <<"Bearer", config.access_token>>
       /\ IsValidAt(config, call.time)
       /\ call.reqs = <<>> => (Untouched /\ call.saves = 0)
       /\ call.reqs # <<>>
          => /\ call.saves = 1
             /\ config.access_token = call.resp.body.d["access_token"]
             /\ config.token_time = call.time
             /\ config_file.state = "ok"
             /\ \A k \in Keys : config_file.data[k] = config[k]

\* The API answered 401 to a request sent with a valid token.
C27_Witness ==
    /\ call.op = "make_request"
    /\ call.reqs = <<>>
    /\ Len(call.api) = 1
    /\ Non2xx(call.apiresp)
    /\ call.err = "HTTP error"
    /\ Present(config.access_token)

\* C28: one API call of YahooClient sends at most one refresh grant to the
\* token endpoint, and sends no API request when its first check fails.
C28_ClientRefreshesOnce ==
    call.op \in {"get_player_stats", "get_team_info"}
    => /\ Len(call.reqs) <= 1
       /\ call.err \in EnsureErrors => call.api = <<>>

\* C29: every client the manager opens is released.  After a failed
\* construction and after teardown no client is open, and after a
\* make_request the only client open is the one of the construction.
C29_NoClientLeftOpen ==
    /\ (call.op = "__init__" /\ call.err # "none") => http.open = 0
    /\ call.op = "__exit__" => http.open = 0
    /\ call.op = "make_request"
       => http.open = IF http.session = "open" THEN 1 ELSE 0

----------------------------------------------------------------------------
(* Claims about concurrent callers *)

\* The thread has left ensure_valid_token.
Finished(c) == callers[c].pc = "outside" /\ callers[c].observed # "nothing"

\* C22: without a lock, every caller of ensure_valid_token that saw an
\* expired record with a refresh token sends its own refresh grant, whatever
\* another caller did in between; the grant carries the refresh token read
\* when the form was built.
C22_EveryExpiredObserverRefreshes ==
    \A c \in Callers :
        (Finished(c) /\ callers[c].observed = "expired"
         /\ Present(callers[c].seen.refresh_token))
        => /\ Len(callers[c].sent) = 1
           /\ callers[c].sent[1].grant_type = "refresh_token"
           /\ Present(callers[c].sent[1].refresh_token)

\* Both callers saw the record expired and both sent a grant; the second
\* one carried R0 when the first one's answer had already put R1 in the
\* record.
C22_Witness ==
    /\ \A c \in Callers :
         /\ callers[c].observed = "expired"
         /\ Len(callers[c].sent) = 1
    /\ \E c \in Callers :
         /\ callers[c].resp.net = "ok"
         /\ callers[c].sent[1].refresh_token = "R0"
         /\ callers[c].current = "R1"

\* The record r is half-way through the update that u has begun: it has the
\* access token of u's answer, new to the record, with the token_time or the
\* refresh_token from before the update although the update changes it.
HalfUpdated(r, u) ==
    LET d == callers[u].resp.body.d
        old == callers[u].before
    IN  /\ callers[u].before # NoConfig
        /\ r.access_token = d["access_token"]
        /\ r.access_token # old.access_token
        /\ \/ r.token_time = old.token_time /\ old.token_time # now
           \/ /\ "refresh_token" \in DOMAIN d
              /\ d["refresh_token"] # old.refresh_token
              /\ r.refresh_token = old.refresh_token

\* C23: a caller that reads the record while another caller's refresh is in
\* progress never sees it half-updated.
C23_NoHalfUpdatedRead ==
    \A c \in Callers : \A u \in Callers \ {c} :
        callers[c].seen # NoConfig => ~HalfUpdated(callers[c].seen, u)

====
